---- MODULE Spec2Model ----
(***************************************************************************)
(* The provisioner's operation streams (package redis_stream): producers   *)
(* append state updates, log lines and the completion marker to two redis  *)
(* streams per operation, and tail sessions (StreamStateUpdate,            *)
(* StreamOperationLogs) read them with a blocking XREAD and hand every     *)
(* decodable entry to a caller-supplied sink.                              *)
(***************************************************************************)
EXTENDS Naturals, Sequences, FiniteSets, TLC

(* ---------------------------------------------------------------- bounds *)

\* The number of entries appended to the store in one run, all streams together.
MaxAppends == 3

\* The number of entries another writer of the shared store appends (entries
\* that the tails cannot decode).
MaxForeign == 1

\* The number of entries appended in a run of two sessions.
MaxPairAppends == 2

\* The number of entries appended in a run under fairness.
MaxLiveAppends == 2

\* The number of entries appended in a run of the producers of two operations
\* and a session.
MaxOpsAppends == 2

\* The number of secrets the cluster lists.
MaxSecrets == 3

\* The number of entries of the directory Detect looks at.
MaxFiles == 5

(* ------------------------------------------------------------ the inputs *)

\* The tail sessions (calls of StreamStateUpdate or StreamOperationLogs), in
\* the order in which they are started.
Sessions == {1, 2}

\* models.GetWorkspaceID(infra, operation) of the one operation at hand.
WorkspaceID == "1-infra-7"

\* The workspace ID of another operation: one that ends like a stream name.
OtherWorkspaceID == "1-infra-7-logs"

Workspaces == {WorkspaceID, OtherWorkspaceID}

\* The resource states a producer pushes (types.TFResourceState).
TFResourceStateKeys == {"resource_id", "state", "status"}

ResourceStates ==
  { [resource_id |-> "r1", state |-> "creating", status |-> ""],
    [resource_id |-> "r2", state |-> "created", status |-> ""] }

\* The log lines a producer pushes (types.TFLogLine, Detail is Diagnostic.Detail).
LogLines ==
  { [Level |-> "INFO", Timestamp |-> "t2", Message |-> "applying", Detail |-> ""],
    [Level |-> "ERROR", Timestamp |-> "t3", Message |-> "failed", Detail |-> "quota"] }

\* The errors a tail can return, and the value of a call that returned nil.
SinkError == "sink error"
TransportError == "transport error"
ContextCanceled == "context canceled"

\* The errors a producer can return.
SerializationError == "serialization error"

(* ------------------------------------------------------------- the state *)

VARIABLES
  streams,    \* the store: stream name -> the sequence of its entries
  clock,      \* the store's time: the ID of the last entry it assigned
  pushed,     \* history: the arguments of the successful state-stream pushes
  produced,   \* history: the producer calls that returned nil, with the entry's ID
  perr,       \* the value the last producer call returned ("none" before any)
  pc,         \* session -> where the call stands
  stream,     \* session -> the name of the stream it tails (streamName)
  wanted,     \* session -> the offset its caller would like to resume from
  lastID,     \* session -> lastID
  messages,   \* session -> the batch of the last read (xstream[0].Messages)
  idx,        \* session -> the position in the batch of the range loop
  sent,       \* session -> history: the records the sink accepted, with their IDs
  calls,      \* session -> history: the number of times the sink was invoked
  ret,        \* session -> the value the call returned ("none" while it runs)
  ctx,        \* session -> whether the call's ctx is done (cancelled)
  secretList, \* helm: the secrets the cluster lists (secretList.Items)
  latestMap,  \* helm: latestMap of ListReleases
  sidx,       \* helm: the position of the range over secretList.Items (0: not called)
  lret,       \* helm: the error ListReleases returned ("none" while it runs)
  directoryContent, \* buildpacks: the names of the directory's entries
  results,    \* buildpacks: the buffer of the results channel
  closed,     \* buildpacks: whether the results channel is closed
  wg,         \* buildpacks: the counter of runtime.wg
  dpc,        \* buildpacks: detector -> where its goroutine stands
  mpc,        \* buildpacks: where Detect stands
  paketo,     \* buildpacks: the paketo builder's Detected and Others
  heroku      \* buildpacks: the heroku builder's Detected and Others

prodVars == <<streams, clock, pushed, produced, perr>>
tailVars == <<pc, stream, wanted, lastID, messages, idx, sent, calls, ret, ctx>>
helmVars == <<secretList, latestMap, sidx, lret>>
detectVars == <<directoryContent, results, closed, wg, dpc, mpc, paketo, heroku>>

vars == <<prodVars, tailVars, helmVars, detectVars>>

(* ------------------------------------------------------------ the naming *)

\* A state stream named without the operation.
getStateStreamNameShared(ws) == "state"

getStateStreamName(ws) == ws \o "-state"

\* A logs stream named like the state stream.
getLogsStreamNameAsState(ws) == ws \o "-state"

getLogsStreamName(ws) == ws \o "-logs"

getLogsFileName(ws) == ws \o "-logs.txt"

StateStream == getStateStreamName(WorkspaceID)
LogsStream == getLogsStreamName(WorkspaceID)
StreamNames == {StateStream, LogsStream}

\* The streams of every operation.
StateStreamNames == {getStateStreamName(ws) : ws \in Workspaces}
LogsStreamNames == {getLogsStreamName(ws) : ws \in Workspaces}

(* ---------------------------------------------------------- the encoding *)

\* A field value of an entry: a string or not, and what it holds.  The text of
\* a "data" field is a JSON text: valid or not, and the object it denotes.
StringValue(v) == [isString |-> TRUE, v |-> v]

\* An encoder that nests the state under a key of its own, as json.Marshal
\* does for a field that is not embedded.
MarshalEntryNested(data, now) ==
  [valid |-> TRUE, obj |-> [TFResourceState |-> data, pushed_at |-> now]]

\* json.Marshal of a TFResourceStateEntry: the embedded state's keys and pushed_at.
MarshalEntry(data, now) ==
  [valid |-> TRUE,
   obj |-> [k \in (DOMAIN data) \cup {"pushed_at"} |->
              IF k = "pushed_at" THEN now ELSE data[k]]]

\* json.Marshal of map{"status": "OPERATION_COMPLETED"}.
MarshalCompleted == [valid |-> TRUE, obj |-> [status |-> "OPERATION_COMPLETED"]]

\* A decoder that keeps every key of the object, pushed_at included.
UnmarshalKeepingAll(text) == text.obj

\* json.Unmarshal into a zero TFResourceState: the keys the struct has are
\* taken from the object, the others stay zero, unknown keys are dropped.
Unmarshal(text) ==
  [k \in TFResourceStateKeys |-> IF k \in DOMAIN text.obj THEN text.obj[k] ELSE ""]

\* A line without the detail.
getLogStringNoDetail(data) ==
  "[" \o data.Level \o "] [" \o data.Timestamp \o "] " \o data.Message \o "\n"

getLogString(data) ==
  IF data.Detail # ""
    THEN "[" \o data.Level \o "] [" \o data.Timestamp \o "] " \o data.Message
         \o ": " \o data.Detail \o "\n"
    ELSE "[" \o data.Level \o "] [" \o data.Timestamp \o "] " \o data.Message \o "\n"

(* ------------------------------------------------------------- the store *)

\* An append that puts the entry in front of the stream.
XAddInFront(name, values) ==
  /\ clock < MaxAppends
  /\ clock' = clock + 1
  /\ streams' = [streams EXCEPT ![name] = <<[ID |-> clock + 1, Values |-> values]>> \o @]

\* An append that overwrites the last entry of the stream.
XAddOverwriting(name, values) ==
  /\ clock < MaxAppends
  /\ clock' = clock + 1
  /\ streams' = [streams EXCEPT ![name] =
                   IF @ = <<>> THEN <<[ID |-> clock + 1, Values |-> values]>>
                   ELSE [@ EXCEPT ![Len(@)] = [ID |-> clock + 1, Values |-> values]]]

\* XADD with ID "*": the store assigns the next ID and appends the entry.
XAdd(name, values) ==
  /\ clock < MaxAppends
  /\ clock' = clock + 1
  /\ streams' = [streams EXCEPT ![name] = Append(@, [ID |-> clock + 1, Values |-> values])]

\* An XADD that fails (the store is unreachable or refuses the append): the
\* store appends nothing and assigns no ID.
XAddErr(name) == UNCHANGED <<streams, clock>>

\* A read that returns the entry at the offset again.
XReadFromOffset(name, offset) == SelectSeq(streams[name], LAMBDA e : e.ID >= offset)

\* A read that returns the newest entry first.
XReadNewestFirst(name, offset) ==
  LET batch == SelectSeq(streams[name], LAMBDA e : e.ID > offset)
  IN [i \in 1..Len(batch) |-> batch[Len(batch) + 1 - i]]

\* XREAD of one stream without COUNT: every entry whose ID is after the offset.
XRead(name, offset) == SelectSeq(streams[name], LAMBDA e : e.ID > offset)

(* --------------------------------------------------------- the producers *)

\* What a producer call leaves behind when it returns: its error, and for a
\* call that returned nil the entry the store appended for it.
Returned(call, ws, err) ==
  /\ perr' = err
  /\ produced' = IF err = "nil"
                   THEN Append(produced, [call |-> call, ws |-> ws, ID |-> clock + 1])
                   ELSE produced

\* A failing push whose entry is appended all the same.
PushToOperationStreamErrAppending(ws, data) ==
  /\ XAdd(getStateStreamName(ws),
          [id |-> StringValue(ws), data |-> StringValue(MarshalEntry(data, clock + 1))])
  /\ perr' = TransportError
  /\ UNCHANGED <<pushed, produced, tailVars, helmVars, detectVars>>

\* json.Marshal fails (return err before any XAdd), or client.XAdd fails
\* (return err): the store has appended nothing.
PushToOperationStreamErr(ws, data) ==
  /\ \/ Returned("PushToOperationStream", ws, SerializationError) /\ UNCHANGED <<streams, clock>>
     \/ Returned("PushToOperationStream", ws, TransportError) /\ XAddErr(getStateStreamName(ws))
  /\ UNCHANGED <<pushed, tailVars, helmVars, detectVars>>

PushToOperationStream(ws, data) ==
  /\ XAdd(getStateStreamName(ws),
          [id |-> StringValue(ws), data |-> StringValue(MarshalEntry(data, clock + 1))])
  /\ Returned("PushToOperationStream", ws, "nil")
  /\ pushed' = IF ws = WorkspaceID THEN Append(pushed, data) ELSE pushed
  /\ UNCHANGED <<tailVars, helmVars, detectVars>>

SendOperationCompletedErr(ws) ==
  /\ \/ Returned("SendOperationCompleted", ws, SerializationError) /\ UNCHANGED <<streams, clock>>
     \/ Returned("SendOperationCompleted", ws, TransportError) /\ XAddErr(getStateStreamName(ws))
  /\ UNCHANGED <<pushed, tailVars, helmVars, detectVars>>

SendOperationCompleted(ws) ==
  /\ XAdd(getStateStreamName(ws),
          [id |-> StringValue(ws), data |-> StringValue(MarshalCompleted)])
  /\ Returned("SendOperationCompleted", ws, "nil")
  /\ pushed' = IF ws = WorkspaceID THEN Append(pushed, Unmarshal(MarshalCompleted)) ELSE pushed
  /\ UNCHANGED <<tailVars, helmVars, detectVars>>

\* client.XAdd fails (return err): there is nothing to serialize.
PushToLogStreamErr(ws, data) ==
  /\ Returned("PushToLogStream", ws, TransportError)
  /\ XAddErr(getLogsStreamName(ws))
  /\ UNCHANGED <<pushed, tailVars, helmVars, detectVars>>

PushToLogStream(ws, data) ==
  /\ XAdd(getLogsStreamName(ws), [log |-> StringValue(getLogString(data))])
  /\ Returned("PushToLogStream", ws, "nil")
  /\ UNCHANGED <<pushed, tailVars, helmVars, detectVars>>

\* The entries of another writer that a tail of the stream cannot decode: no
\* payload field, a payload that is no string, a payload that is no JSON text.
Undecodable(name) ==
  IF name \in StateStreamNames
    THEN { [id |-> StringValue(WorkspaceID)],
           [data |-> [isString |-> FALSE, v |-> [valid |-> FALSE, obj |-> <<>>]]],
           [data |-> StringValue([valid |-> FALSE, obj |-> <<>>])] }
    ELSE { [id |-> StringValue(WorkspaceID)],
           [log |-> [isString |-> FALSE, v |-> ""]] }


\* The entries of the store that the tails cannot decode, all streams together.
ForeignCount ==
  LET Bad(name) == Len(SelectSeq(streams[name], LAMBDA e : e.Values \in Undecodable(name)))
  IN Bad(StateStream) + Bad(LogsStream)

\* Another writer of the shared store appends an entry no producer of this
\* package writes.
ForeignAppend(name, values) ==
  /\ ForeignCount < MaxForeign
  /\ XAdd(name, values)
  /\ UNCHANGED <<pushed, produced, perr, tailVars, helmVars, detectVars>>

(* ------------------------------------------------------------- the tails *)

Running == {"read", "range", "select"}

\* What every exit of a tail leaves behind: the returned value.  The batch and
\* the loop position are locals of the call and end with it.
Return(s, value) ==
  /\ pc' = [pc EXCEPT ![s] = "done"]
  /\ ret' = [ret EXCEPT ![s] = value]
  /\ messages' = [messages EXCEPT ![s] = <<>>]
  /\ idx' = [idx EXCEPT ![s] = 0]

\* The offsets a caller can remember: the beginning, or the offset an earlier
\* session of the stream had reached when it returned.
Remembered(name) ==
  {0} \cup {lastID[t] : t \in {u \in Sessions : pc[u] = "done" /\ stream[u] = name}}

\* A start at the end of the stream ("$"): only entries appended later are read.
StartOffsetLatest(offset) == clock

\* A start that resumes from the offset the caller remembers.
StartOffsetResuming(offset) == offset

\* lastID := "0-0"; streamName := ...: neither function takes an offset.
StartOffset(offset) == 0

Start(s, name) ==
  /\ pc[s] = "idle"
  /\ \A t \in Sessions : t < s => pc[t] # "idle" /\ stream[t] = name
  /\ \E offset \in Remembered(name) :
       /\ wanted' = [wanted EXCEPT ![s] = offset]
       /\ lastID' = [lastID EXCEPT ![s] = StartOffset(offset)]
  /\ stream' = [stream EXCEPT ![s] = name]
  /\ pc' = [pc EXCEPT ![s] = "read"]
  /\ UNCHANGED <<prodVars, helmVars, detectVars, messages, idx, sent, calls, ret, ctx>>

\* An offset that stays at the first entry of the batch.
NextOffsetFirst(batch) == batch[1].ID

\* An offset that moves to the last entry of the batch that carries a payload
\* field, and stays before the batch when there is none.
NextOffsetLastPayload(batch) ==
  LET carrying == SelectSeq(batch, LAMBDA e : {"data", "log"} \cap DOMAIN e.Values # {})
  IN IF carrying = <<>> THEN batch[1].ID - 1 ELSE carrying[Len(carrying)].ID

\* lastID = messages[len(messages)-1].ID
NextOffset(batch) == batch[Len(batch)].ID

\* A read that does not block: when the stream holds nothing after the offset
\* it comes back with the client's "no reply" error.
ReadNotBlocking(s, name) ==
  /\ pc[s] = "read"
  /\ stream[s] = name
  /\ LET batch == XRead(name, lastID[s])
     IN IF batch = <<>>
          THEN Return(s, "redis: nil") /\ UNCHANGED lastID
          ELSE /\ messages' = [messages EXCEPT ![s] = batch]
               /\ lastID' = [lastID EXCEPT ![s] = NextOffset(batch)]
               /\ idx' = [idx EXCEPT ![s] = 1]
               /\ pc' = [pc EXCEPT ![s] = "range"]
               /\ UNCHANGED ret
  /\ UNCHANGED <<prodVars, helmVars, detectVars, stream, wanted, sent, calls, ctx>>

\* client.XRead(ctx, Block: 0) returns a batch: it does so only once the stream
\* holds an entry after lastID.  The offset moves before the batch is ranged over.
Read(s, name) ==
  /\ pc[s] = "read"
  /\ stream[s] = name
  /\ LET batch == XRead(name, lastID[s])
     IN /\ batch # <<>>
        /\ messages' = [messages EXCEPT ![s] = batch]
        /\ lastID' = [lastID EXCEPT ![s] = NextOffset(batch)]
  /\ idx' = [idx EXCEPT ![s] = 1]
  /\ pc' = [pc EXCEPT ![s] = "range"]
  /\ UNCHANGED <<prodVars, helmVars, detectVars, stream, wanted, sent, calls, ret, ctx>>

\* client.XRead returns no error and a result without a stream, or a stream
\* without messages: xstream[0], or messages[len(messages)-1], is an index out
\* of range, and the goroutine panics.
ReadEmpty(s, name) ==
  /\ pc[s] = "read"
  /\ stream[s] = name
  /\ XRead(name, lastID[s]) = <<>>
  /\ pc' = [pc EXCEPT ![s] = "panic"]
  /\ UNCHANGED <<prodVars, helmVars, detectVars, stream, wanted, lastID, messages, idx, sent, calls, ret, ctx>>

\* The errors client.XRead can return: the store or the connection fails, or,
\* once ctx is done, the client gives up with ctx's error.  Whether a read that
\* is already blocked notices a cancelled ctx is the client library's choice:
\* both outcomes are behaviours (ReadErr with ContextCanceled, or Read later).
ReadErrors(s) == {TransportError} \cup (IF ctx[s] THEN {ContextCanceled} ELSE {})

\* A failed read that is reported as a clean end.
ReadErrReturningNil(s, name) ==
  /\ pc[s] = "read"
  /\ stream[s] = name
  /\ \E err \in ReadErrors(s) : Return(s, "nil")
  /\ UNCHANGED <<prodVars, helmVars, detectVars, stream, wanted, lastID, sent, calls, ctx>>

\* if err != nil { return err }
ReadErr(s, name) ==
  /\ pc[s] = "read"
  /\ stream[s] = name
  /\ \E err \in ReadErrors(s) : Return(s, err)
  /\ UNCHANGED <<prodVars, helmVars, detectVars, stream, wanted, lastID, sent, calls, ctx>>

\* A range loop that looks at ctx after every message.
ContinueCheckingCtx(s) ==
  IF ctx[s]
    THEN Return(s, "nil")
    ELSE /\ IF idx[s] = Len(messages[s])
              THEN /\ pc' = [pc EXCEPT ![s] = "select"]
                   /\ messages' = [messages EXCEPT ![s] = <<>>]
                   /\ idx' = [idx EXCEPT ![s] = 0]
              ELSE /\ idx' = [idx EXCEPT ![s] = @ + 1]
                   /\ UNCHANGED <<pc, messages>>
         /\ UNCHANGED ret

\* The next position of the range loop; after the last message, the select
\* (the batch is a local of the loop body: it is gone once the range is over).
Continue(s) ==
  /\ IF idx[s] = Len(messages[s])
       THEN /\ pc' = [pc EXCEPT ![s] = "select"]
            /\ messages' = [messages EXCEPT ![s] = <<>>]
            /\ idx' = [idx EXCEPT ![s] = 0]
       ELSE /\ idx' = [idx EXCEPT ![s] = @ + 1]
            /\ UNCHANGED <<pc, messages>>
  /\ UNCHANGED ret

\* A send whose failure is dropped: the loop goes on.
SendIgnoringError(s, id, record) ==
  /\ calls' = [calls EXCEPT ![s] = @ + 1]
  /\ \E err \in {"nil", SinkError} :
       /\ sent' = [sent EXCEPT ![s] =
                     IF err = "nil" THEN Append(@, [ID |-> id, record |-> record]) ELSE @]
       /\ Continue(s)

\* A send whose failure is reported as a clean end when ctx is done.
SendPreferringCancel(s, id, record) ==
  /\ calls' = [calls EXCEPT ![s] = @ + 1]
  /\ \E err \in {"nil", SinkError} :
       IF err # "nil"
         THEN /\ Return(s, IF ctx[s] THEN "nil" ELSE err)
              /\ UNCHANGED sent
         ELSE /\ sent' = [sent EXCEPT ![s] = Append(@, [ID |-> id, record |-> record])]
              /\ Continue(s)

\* err = send(...): the sink accepts the record or fails; a failure is returned.
Send(s, id, record) ==
  /\ calls' = [calls EXCEPT ![s] = @ + 1]
  /\ \E err \in {"nil", SinkError} :
       IF err # "nil"
         THEN /\ Return(s, err)
              /\ UNCHANGED sent
         ELSE /\ sent' = [sent EXCEPT ![s] = Append(@, [ID |-> id, record |-> record])]
              /\ Continue(s)

\* for _, msg := range messages { ... } of StreamOperationLogs, one message.
LogsDecodable(msg) ==
  /\ "log" \in DOMAIN msg.Values
  /\ msg.Values["log"].isString

LogsDecode(msg) == msg.Values["log"].v

\* A range loop of the logs tail that returns on a message it cannot decode.
StreamOperationLogsRangeStrict(s, ws) ==
  /\ pc[s] = "range"
  /\ stream[s] = getLogsStreamName(ws)
  /\ LET msg == messages[s][idx[s]]
     IN IF LogsDecodable(msg)
          THEN Send(s, msg.ID, LogsDecode(msg))
          ELSE Return(s, "nil") /\ UNCHANGED <<sent, calls>>
  /\ UNCHANGED <<prodVars, helmVars, detectVars, stream, wanted, lastID, ctx>>

StreamOperationLogsRange(s, ws) ==
  /\ pc[s] = "range"
  /\ stream[s] = getLogsStreamName(ws)
  /\ LET msg == messages[s][idx[s]]
     IN IF LogsDecodable(msg)
          THEN Send(s, msg.ID, LogsDecode(msg))
          ELSE Continue(s) /\ UNCHANGED <<sent, calls>>
  /\ UNCHANGED <<prodVars, helmVars, detectVars, stream, wanted, lastID, ctx>>

\* for _, msg := range messages { ... } of StreamStateUpdate, one message.
\* A decoder that does not look at json.Unmarshal's error.
StateDecodableUnchecked(msg) ==
  /\ "data" \in DOMAIN msg.Values
  /\ msg.Values["data"].isString

StateDecodable(msg) ==
  /\ "data" \in DOMAIN msg.Values
  /\ msg.Values["data"].isString
  /\ msg.Values["data"].v.valid

StateDecode(msg) == Unmarshal(msg.Values["data"].v)

\* A range loop that ends the call with nil once the sink has the marker.
StreamStateUpdateRangeStopping(s, ws) ==
  /\ pc[s] = "range"
  /\ stream[s] = getStateStreamName(ws)
  /\ LET msg == messages[s][idx[s]]
     IN IF StateDecodable(msg)
          THEN IF StateDecode(msg) = Unmarshal(MarshalCompleted)
                 THEN /\ calls' = [calls EXCEPT ![s] = @ + 1]
                      /\ sent' = [sent EXCEPT ![s] =
                                    Append(@, [ID |-> msg.ID, record |-> StateDecode(msg)])]
                      /\ Return(s, "nil")
                 ELSE Send(s, msg.ID, StateDecode(msg))
          ELSE Continue(s) /\ UNCHANGED <<sent, calls>>
  /\ UNCHANGED <<prodVars, helmVars, detectVars, stream, wanted, lastID, ctx>>

StreamStateUpdateRange(s, ws) ==
  /\ pc[s] = "range"
  /\ stream[s] = getStateStreamName(ws)
  /\ LET msg == messages[s][idx[s]]
     IN IF StateDecodable(msg)
          THEN Send(s, msg.ID, StateDecode(msg))
          ELSE Continue(s) /\ UNCHANGED <<sent, calls>>
  /\ UNCHANGED <<prodVars, helmVars, detectVars, stream, wanted, lastID, ctx>>

\* A select that returns ctx's error once ctx is done.
SelectReturningCtxErr(s) ==
  /\ pc[s] = "select"
  /\ IF ctx[s]
       THEN Return(s, ContextCanceled)
       ELSE pc' = [pc EXCEPT ![s] = "read"] /\ UNCHANGED <<ret, messages, idx>>
  /\ UNCHANGED <<prodVars, helmVars, detectVars, stream, wanted, lastID, sent, calls, ctx>>

\* select { case <-ctx.Done(): return nil; default: }
Select(s) ==
  /\ pc[s] = "select"
  /\ IF ctx[s]
       THEN Return(s, "nil")
       ELSE pc' = [pc EXCEPT ![s] = "read"] /\ UNCHANGED <<ret, messages, idx>>
  /\ UNCHANGED <<prodVars, helmVars, detectVars, stream, wanted, lastID, sent, calls, ctx>>

\* The caller cancels the ctx of a running session.
Cancel(s) ==
  /\ pc[s] \in Running
  /\ ~ctx[s]
  /\ ctx' = [ctx EXCEPT ![s] = TRUE]
  /\ UNCHANGED <<prodVars, helmVars, detectVars, pc, stream, wanted, lastID, messages, idx, sent, calls, ret>>

(* ------------------------------------------------- helm: ListReleases *)

\* The namespace ListReleases lists, and the labels a listed secret can carry:
\* a release name or none, and a version that is a number, or not, or none.
Namespace == "default"
ReleaseNames == {"web", "db"}
VersionLabels == {"1", "2", "x"}

LabelSets ==
  { [k \in {} |-> ""] }
  \cup { [name |-> n] : n \in ReleaseNames }
  \cup { [version |-> v] : v \in VersionLabels }
  \cup { [name |-> n, version |-> v] : n \in ReleaseNames, v \in VersionLabels }

\* The listings: every secret has a name of its own (here, its position).
Listings(max) ==
  UNION { { [i \in 1..n |-> [Name |-> i, Namespace |-> Namespace, Labels |-> labels[i]]] :
              labels \in [1..n -> LabelSets] } : n \in 0..max }

\* strconv.Atoi: the number a string of digits denotes, or an error.
AtoiErr(str) == str \notin {"1", "2"}

AtoiValue(str) == IF str = "1" THEN 1 ELSE 2

\* id := fmt.Sprintf("%s/%s", secret.Namespace, relName)
ReleaseID(secret) == secret.Namespace \o "/" \o secret.Labels["name"]

\* secretList, err := ...Secrets(namespace).List(...): the listing, or an error
\* (return nil, err).
ListReleasesList ==
  /\ sidx = 0
  /\ lret = "none"
  /\ \/ sidx' = 1 /\ UNCHANGED lret
     \/ lret' = "list error" /\ UNCHANGED sidx
  /\ UNCHANGED <<secretList, latestMap, prodVars, tailVars, detectVars>>

\* if currLatest, exists := latestMap[id]; exists { ... } else { ... }: whether
\* the secret takes the place of the one kept for its release.
Replaces(secret, currLatest) ==
  /\ "version" \in DOMAIN secret.Labels
  /\ "version" \in DOMAIN currLatest.Labels
  /\ ~AtoiErr(currLatest.Labels["version"])
  /\ ~AtoiErr(secret.Labels["version"])
  /\ AtoiValue(currLatest.Labels["version"]) < AtoiValue(secret.Labels["version"])

\* for _, secret := range secretList.Items { ... }, one secret.
ListReleasesRange ==
  /\ lret = "none"
  /\ sidx \in 1..Len(secretList)
  /\ LET secret == secretList[sidx]
     IN IF "name" \notin DOMAIN secret.Labels
          THEN UNCHANGED latestMap
          ELSE LET id == ReleaseID(secret)
               IN IF id \in DOMAIN latestMap
                    THEN latestMap' = IF Replaces(secret, latestMap[id])
                                        THEN [latestMap EXCEPT ![id] = secret]
                                        ELSE latestMap
                    ELSE latestMap' = [i \in DOMAIN latestMap \cup {id} |->
                                         IF i = id THEN secret ELSE latestMap[i]]
  /\ sidx' = sidx + 1
  /\ UNCHANGED <<secretList, lret, prodVars, tailVars, detectVars>>

\* The releases of latestMap are decoded and returned: return res, nil.
ListReleasesReturn ==
  /\ lret = "none"
  /\ sidx = Len(secretList) + 1
  /\ lret' = "nil"
  /\ UNCHANGED <<secretList, latestMap, sidx, prodVars, tailVars, detectVars>>

ListReleases == ListReleasesList \/ ListReleasesRange \/ ListReleasesReturn

(* ------------------------------------- buildpacks: pythonRuntime.Detect *)

\* The detectors, in the order in which Detect starts their goroutines.
DetectorOrder == <<"pipenv", "pip", "conda", "standalone">>
Detectors == {DetectorOrder[i] : i \in 1..Len(DetectorOrder)}

\* make(chan ..., 4) and runtime.wg.Add(4)
ResultsCap == 4
WgDelta == 4

\* The names a directory can hold, in the order in which a listing gives them.
FileOrder ==
  <<"Pipfile", "Pipfile.lock", "README.md", "environment.yml", "main.py",
    "package-list.txt", "requirements.txt">>

Directories ==
  { SelectSeq(FileOrder, LAMBDA name : name \in S) :
      S \in {T \in SUBSET {FileOrder[i] : i \in 1..Len(FileOrder)} : Cardinality(T) <= MaxFiles} }

PaketoBuildpackInfo == [Name |-> "Python", Buildpack |-> "paketobuildpacks/python"]
HerokuBuildpackInfo == [Name |-> "Python", Buildpack |-> "heroku/python"]

\* The builders as Detect finds them: nothing classified yet, or the buildpack
\* of another runtime already detected.
BuildersBefore ==
  { [Detected |-> <<>>, Others |-> <<>>],
    [Detected |-> <<[Name |-> "NodeJS", Buildpack |-> "nodejs"]>>, Others |-> <<>>] }

\* name == "..." for some entry of the directory.
Found(name) == \E i \in 1..Len(directoryContent) : directoryContent[i] = name

\* strings.HasSuffix
HasSuffix(str, suffix) ==
  Len(str) >= Len(suffix) /\ SubSeq(str, Len(str) - Len(suffix) + 1, Len(str)) = suffix

\* A pipenv detector that is content with one of the two files.
detectPipenvEither == Found("Pipfile") \/ Found("Pipfile.lock")

\* What each detector's loop finds.
detectPipenv == Found("Pipfile") /\ Found("Pipfile.lock")

detectPip == Found("requirements.txt")

detectConda == Found("environment.yml") \/ Found("package-list.txt")

detectStandalone == \E i \in 1..Len(directoryContent) : HasSuffix(directoryContent[i], ".py")

Detects(d) ==
  CASE d = "pipenv" -> detectPipenv
    [] d = "pip" -> detectPip
    [] d = "conda" -> detectConda
    [] d = "standalone" -> detectStandalone

\* results := make(chan ..., 4); runtime.wg.Add(4)
DetectStart ==
  /\ mpc = "idle"
  /\ results' = <<>>
  /\ closed' = FALSE
  /\ wg' = wg + WgDelta
  /\ mpc' = "go"
  /\ UNCHANGED <<directoryContent, dpc, paketo, heroku, prodVars, tailVars, helmVars>>

\* go runtime.detectPipenv(...); go runtime.detectPip(...); ...: one of them.
DetectGo ==
  /\ mpc = "go"
  /\ LET started == Cardinality({d \in Detectors : dpc[d] # "none"})
     IN /\ dpc' = [dpc EXCEPT ![DetectorOrder[started + 1]] = "scan"]
        /\ mpc' = IF started + 1 = Len(DetectorOrder) THEN "wait" ELSE "go"
  /\ UNCHANGED <<directoryContent, results, closed, wg, paketo, heroku, prodVars, tailVars, helmVars>>

\* A detector that signals the wait group only when it has found its files.
DetectorDoneOnMatch(d) ==
  /\ dpc[d] = "done"
  /\ IF Detects(d)
       THEN /\ wg' = wg - 1
            /\ dpc' = [dpc EXCEPT ![d] = "exit"]
       ELSE /\ dpc' = [dpc EXCEPT ![d] = "exit"]
            /\ UNCHANGED wg
  /\ UNCHANGED <<directoryContent, results, closed, mpc, paketo, heroku, prodVars, tailVars, helmVars>>

\* The loop of a detector and its send: results <- {name, true} when the
\* files are found.  The send waits while the buffer is full, and panics on a
\* closed channel.
DetectorSend(d) ==
  /\ dpc[d] = "scan"
  /\ IF Detects(d)
       THEN IF closed
              THEN dpc' = [dpc EXCEPT ![d] = "panic"] /\ UNCHANGED results
              ELSE /\ Len(results) < ResultsCap
                   /\ results' = Append(results, d)
                   /\ dpc' = [dpc EXCEPT ![d] = "done"]
       ELSE dpc' = [dpc EXCEPT ![d] = "done"] /\ UNCHANGED results
  /\ UNCHANGED <<directoryContent, closed, wg, mpc, paketo, heroku, prodVars, tailVars, helmVars>>

\* runtime.wg.Done(): it panics when the counter would become negative.
DetectorDone(d) ==
  /\ dpc[d] = "done"
  /\ IF wg > 0
       THEN /\ wg' = wg - 1
            /\ dpc' = [dpc EXCEPT ![d] = "exit"]
       ELSE /\ dpc' = [dpc EXCEPT ![d] = "panic"]
            /\ UNCHANGED wg
  /\ UNCHANGED <<directoryContent, results, closed, mpc, paketo, heroku, prodVars, tailVars, helmVars>>

\* runtime.wg.Wait()
DetectWait ==
  /\ mpc = "wait"
  /\ wg = 0
  /\ mpc' = "close"
  /\ UNCHANGED <<directoryContent, results, closed, wg, dpc, paketo, heroku, prodVars, tailVars, helmVars>>

\* close(results)
DetectClose ==
  /\ mpc = "close"
  /\ closed' = TRUE
  /\ mpc' = "classify"
  /\ UNCHANGED <<directoryContent, results, wg, dpc, paketo, heroku, prodVars, tailVars, helmVars>>

\* if len(results) == 0 { ...Others... return nil }; ...Detected...; return nil
DetectClassify ==
  /\ mpc = "classify"
  /\ IF Len(results) = 0
       THEN /\ paketo' = [paketo EXCEPT !.Others = Append(@, PaketoBuildpackInfo)]
            /\ heroku' = [heroku EXCEPT !.Others = Append(@, HerokuBuildpackInfo)]
       ELSE /\ paketo' = [paketo EXCEPT !.Detected = Append(@, PaketoBuildpackInfo)]
            /\ heroku' = [heroku EXCEPT !.Detected = Append(@, HerokuBuildpackInfo)]
  /\ mpc' = "returned"
  /\ UNCHANGED <<directoryContent, results, closed, wg, dpc, prodVars, tailVars, helmVars>>

Detect ==
  \/ DetectStart
  \/ DetectGo
  \/ \E d \in Detectors : DetectorSend(d)
  \/ \E d \in Detectors : DetectorDone(d)
  \/ DetectWait
  \/ DetectClose
  \/ DetectClassify

(* ------------------------------------------------------ the specification *)

\* ListReleases is not called: nothing is listed.
InitHelm ==
  /\ secretList = <<>>
  /\ latestMap = <<>>
  /\ sidx = 0
  /\ lret = "none"

\* Detect is not called: no goroutine, no channel.
InitDetect ==
  /\ directoryContent = <<>>
  /\ results = <<>>
  /\ closed = FALSE
  /\ wg = 0
  /\ dpc = [d \in Detectors |-> "none"]
  /\ mpc = "idle"
  /\ paketo = [Detected |-> <<>>, Others |-> <<>>]
  /\ heroku = [Detected |-> <<>>, Others |-> <<>>]

\* No stream holds an entry, no producer was called, no session is started.
InitStreams ==
  /\ streams = [n \in StateStreamNames \cup LogsStreamNames |-> <<>>]
  /\ clock = 0
  /\ pushed = <<>>
  /\ produced = <<>>
  /\ perr = "none"
  /\ pc = [s \in Sessions |-> "idle"]
  /\ stream = [s \in Sessions |-> ""]
  /\ wanted = [s \in Sessions |-> 0]
  /\ lastID = [s \in Sessions |-> 0]
  /\ messages = [s \in Sessions |-> <<>>]
  /\ idx = [s \in Sessions |-> 0]
  /\ sent = [s \in Sessions |-> <<>>]
  /\ calls = [s \in Sessions |-> 0]
  /\ ret = [s \in Sessions |-> "none"]
  /\ ctx = [s \in Sessions |-> FALSE]

Init == InitStreams /\ InitHelm /\ InitDetect

StreamStateUpdate(s, ws) ==
  \/ Start(s, getStateStreamName(ws))
  \/ Read(s, getStateStreamName(ws))
  \/ ReadErr(s, getStateStreamName(ws))
  \/ StreamStateUpdateRange(s, ws)

StreamOperationLogs(s, ws) ==
  \/ Start(s, getLogsStreamName(ws))
  \/ Read(s, getLogsStreamName(ws))
  \/ ReadErr(s, getLogsStreamName(ws))
  \/ StreamOperationLogsRange(s, ws)

\* The producers' calls for one operation, each of them returning nil.
Calls(ws) ==
  \/ \E data \in ResourceStates : PushToOperationStream(ws, data)
  \/ SendOperationCompleted(ws)
  \/ \E data \in LogLines : PushToLogStream(ws, data)

\* The producers' calls for one operation, each of them failing.
FailingCalls(ws) ==
  \/ \E data \in ResourceStates : PushToOperationStreamErr(ws, data)
  \/ SendOperationCompletedErr(ws)
  \/ \E data \in LogLines : PushToLogStreamErr(ws, data)

\* The producers' calls and the other writers of the store.
Produce ==
  \/ Calls(WorkspaceID)
  \/ \E name \in StreamNames : \E values \in Undecodable(name) : ForeignAppend(name, values)

\* One session, its sink and its caller's cancellation, beside the producers.
Next ==
  \/ Produce
  \/ StreamStateUpdate(1, WorkspaceID)
  \/ StreamOperationLogs(1, WorkspaceID)
  \/ Select(1)
  \/ Cancel(1)

Spec == Init /\ [][Next]_vars

\* Two sessions over one stream, neither of them cancelled, beside the producers.
NextPair ==
  \/ clock < MaxPairAppends /\ Produce
  \/ \E s \in Sessions : StreamStateUpdate(s, WorkspaceID)
  \/ \E s \in Sessions : StreamOperationLogs(s, WorkspaceID)
  \/ \E s \in Sessions : Select(s)

SpecPair == Init /\ [][NextPair]_vars

\* The producers of two operations alone, their calls succeeding or failing in
\* any order: no call shares anything with another one but the store.
NextProd ==
  \/ \E ws \in Workspaces : Calls(ws)
  \/ \E ws \in Workspaces : FailingCalls(ws)

SpecProd == Init /\ [][NextProd]_vars

\* The producers of two operations and one session, the tail of one of the
\* four streams.
NextOps ==
  \/ clock < MaxOpsAppends /\ \E ws \in Workspaces : Calls(ws)
  \/ \E ws \in Workspaces : StreamStateUpdate(1, ws)
  \/ \E ws \in Workspaces : StreamOperationLogs(1, ws)
  \/ Select(1)

SpecOps == Init /\ [][NextOps]_vars

\* The steps of a session that need nothing but the store's answer and the
\* scheduler: a read that returns a batch, the range loop, the select.
Progress(s) ==
  \/ \E name \in StreamNames : Read(s, name)
  \/ StreamStateUpdateRange(s, WorkspaceID)
  \/ StreamOperationLogsRange(s, WorkspaceID)
  \/ Select(s)

\* One session beside the producers, as in Spec, where a blocked read returns
\* once the stream holds an entry after the offset and the session's goroutine
\* keeps running.
NextLive ==
  \/ clock < MaxLiveAppends /\ Produce
  \/ StreamStateUpdate(1, WorkspaceID)
  \/ StreamOperationLogs(1, WorkspaceID)
  \/ Select(1)
  \/ Cancel(1)

SpecLive == Init /\ [][NextLive]_vars /\ WF_vars(Progress(1))

\* One session beside the producers, with a client whose read can come back
\* without an error and without an entry.
NextFault ==
  \/ Next
  \/ \E name \in StreamNames : ReadEmpty(1, name)

SpecFault == Init /\ [][NextFault]_vars

\* One call of ListReleases on a cluster that lists any of the listings.
InitReleases ==
  /\ InitStreams
  /\ InitDetect
  /\ secretList \in Listings(MaxSecrets)
  /\ latestMap = <<>>
  /\ sidx = 0
  /\ lret = "none"

NextReleases == ListReleases

SpecReleases == InitReleases /\ [][NextReleases]_vars

\* One call of Detect on a new pythonRuntime, for any directory: the
\* goroutines and Detect itself are scheduled as long as they can take a step.
InitDetectCall ==
  /\ InitStreams
  /\ InitHelm
  /\ directoryContent \in Directories
  /\ results = <<>>
  /\ closed = FALSE
  /\ wg = 0
  /\ dpc = [d \in Detectors |-> "none"]
  /\ mpc = "idle"
  /\ paketo \in BuildersBefore
  /\ heroku = paketo

NextDetect == Detect

SpecDetect == InitDetectCall /\ [][NextDetect]_vars /\ WF_vars(NextDetect)

(* ------------------------------------------------------------ the claims *)

IsPrefix(p, q) == Len(p) <= Len(q) /\ \A i \in 1..Len(p) : p[i] = q[i]

\* The entries a tail is to deliver: all but those no decoder can read.
Decodable(name, e) == e.Values \notin Undecodable(name)

Decode(name, e) == IF name \in StateStreamNames THEN StateDecode(e) ELSE LogsDecode(e)

\* What a never-failing sink has received once every entry of the stream up to
\* the offset has been ranged over: the decodable ones, in the stream's order.
Expected(name, offset) ==
  LET seq == SelectSeq(streams[name], LAMBDA e : e.ID <= offset /\ Decodable(name, e))
  IN [i \in 1..Len(seq) |-> [ID |-> seq[i].ID, record |-> Decode(name, seq[i])]]

Records(s) == [i \in 1..Len(sent[s]) |-> sent[s][i].record]

\* The session stands between two batches: the last one is ranged over.
AtBoundary(s) == pc[s] \in {"read", "select"}

CaughtUp(s) == AtBoundary(s) /\ XRead(stream[s], lastID[s]) = <<>>

CompletedRecord == Unmarshal(MarshalCompleted)

\* C1: a state tail from offset 0 whose sink never fails delivers the pushed
\* records in push order, the completion marker among them where it was sent:
\* what the sink has received is always a prefix of the pushes, and all of
\* them once the tail has read the whole stream.
C1_PushOrder ==
  \A s \in Sessions :
    stream[s] = StateStream =>
      /\ IsPrefix(Records(s), pushed)
      /\ CaughtUp(s) => Records(s) = pushed

C1_Witness ==
  /\ CaughtUp(1)
  /\ stream[1] = StateStream
  /\ Len(pushed) = 3
  /\ pushed[1] # pushed[2]
  /\ pushed[3] = CompletedRecord
  /\ Records(1) = pushed

\* C2: a session whose ctx is cancelled while it is blocked on its read
\* returns nil as its next step, and nothing is delivered to its sink after
\* the cancellation (a failure of the store, which is no effect of the
\* cancellation, is left aside: the call may return the transport's error).
C2_CancelWhileBlocked ==
  [][\A s \in Sessions :
       (pc[s] = "read" /\ ctx[s]) =>
         \/ pc'[s] = "read"
         \/ /\ pc'[s] = "done"
            /\ ret'[s] \in {"nil", TransportError}
            /\ sent'[s] = sent[s]
            /\ calls'[s] = calls[s]]_vars

\* C3: when the sink fails on the k-th record handed to it, the tail returns
\* that error after k-1 deliveries (and a running tail has had no failure),
\* and a session that has returned never invokes the sink again.
C3_SinkAbort ==
  /\ [](\A s \in Sessions :
          /\ ret[s] = SinkError => pc[s] = "done" /\ calls[s] = Len(sent[s]) + 1
          /\ ret[s] # SinkError => calls[s] = Len(sent[s]))
  /\ [][\A s \in Sessions :
          pc[s] = "done" =>
            calls'[s] = calls[s] /\ sent'[s] = sent[s] /\ ret'[s] = ret[s] /\ pc'[s] = "done"]_vars

\* The sink failed on the second record, and a later decodable entry of the
\* batch was never handed to it.
C3_Witness ==
  /\ ret[1] = SinkError
  /\ calls[1] = 2
  /\ Len(Expected(stream[1], lastID[1])) > calls[1]

\* The part of the stream a session has ranged over.
Handled(s) ==
  IF pc[s] = "range" THEN messages[s][idx[s]].ID - 1 ELSE lastID[s]

\* C4: an undecodable entry is skipped and does not end the tail: the step
\* over it hands nothing to the sink and leaves the session in its loop, and
\* what the sink of a running session has received is exactly the decodable
\* entries ranged over so far, in the stream's order.
C4_SkipUndecodable ==
  /\ [](\A s \in Sessions :
          pc[s] \in Running => sent[s] = Expected(stream[s], Handled(s)))
  /\ [][\A s \in Sessions :
          (pc[s] = "range" /\ ~Decodable(stream[s], messages[s][idx[s]])) =>
            /\ pc'[s] \in {"range", "select"}
            /\ ret'[s] = "none"
            /\ sent'[s] = sent[s]
            /\ calls'[s] = calls[s]]_vars

\* An undecodable entry between two delivered ones, the session still running.
C4_Witness ==
  /\ CaughtUp(1)
  /\ Len(streams[stream[1]]) = 3
  /\ ~Decodable(stream[1], streams[stream[1]][2])
  /\ Len(sent[1]) = 2
  /\ sent[1][1].ID = streams[stream[1]][1].ID
  /\ sent[1][2].ID = streams[stream[1]][3].ID

\* C5: in what a state tail delivers, the completion marker comes after every
\* decodable entry that precedes it in the stream.
C5_MarkerInOrder ==
  \A s \in Sessions :
    stream[s] = StateStream =>
      \A i \in 1..Len(sent[s]) :
        sent[s][i].record = CompletedRecord =>
          \A k \in 1..Len(streams[StateStream]) :
            LET e == streams[StateStream][k]
            IN (Decodable(StateStream, e) /\ e.ID < sent[s][i].ID) =>
                 \E j \in 1..(i - 1) : sent[s][j].ID = e.ID

\* The marker delivered after a state update of the same batch.
C5_Witness ==
  /\ stream[1] = StateStream
  /\ Len(sent[1]) = 2
  /\ sent[1][1].record # CompletedRecord
  /\ sent[1][2].record = CompletedRecord
  /\ lastID[1] = sent[1][2].ID

\* The completion marker, as an entry of the state stream.
IsMarker(e) == "data" \in DOMAIN e.Values /\ e.Values["data"] = StringValue(MarshalCompleted)

\* C6 as claimed: once the completion marker is in the state stream, no
\* producer appends to that stream: no entry of a producer follows the marker.
C6_MarkerIsLast ==
  \A k \in 1..Len(streams[StateStream]) :
    IsMarker(streams[StateStream][k]) =>
      \A j \in (k + 1)..Len(streams[StateStream]) :
        ~Decodable(StateStream, streams[StateStream][j])

\* C6, amended: SendOperationCompleted appends the marker after every entry the
\* state stream then holds, and no step removes, changes or reorders an entry
\* of a stream: every stream only grows at its end, so the marker stays where
\* it was appended, whatever is appended after it.
C6_MarkerStays ==
  /\ [][\A n \in StreamNames : IsPrefix(streams[n], streams'[n])]_vars
  /\ [][SendOperationCompleted(WorkspaceID) =>
          /\ Len(streams'[StateStream]) = Len(streams[StateStream]) + 1
          /\ IsMarker(streams'[StateStream][Len(streams'[StateStream])])]_vars

\* A state update appended after the marker.
C6_Witness ==
  /\ Len(streams[StateStream]) = 3
  /\ StateDecodable(streams[StateStream][1])
  /\ IsMarker(streams[StateStream][2])
  /\ ~IsMarker(streams[StateStream][3])
  /\ StateDecodable(streams[StateStream][3])

\* What the tails of a stream have received and will read next.
TailView(name) ==
  [s \in Sessions |->
     IF stream[s] = name THEN <<sent[s], XRead(name, lastID[s])>> ELSE <<>>]

C8_PrefixOfStream ==
  \A s \in Sessions :
    pc[s] # "idle" =>
      /\ IsPrefix(sent[s], Expected(stream[s], clock))
      /\ \A t \in Sessions :
           stream[t] = stream[s] => IsPrefix(sent[s], sent[t]) \/ IsPrefix(sent[t], sent[s])

\* Two running sessions of one stream, one ahead of the other, on batches cut
\* differently.
C8_Witness ==
  /\ stream[1] = stream[2]
  /\ pc[1] = "read"
  /\ Len(sent[1]) = 2
  /\ pc[2] = "range"
  /\ Len(messages[2]) = 2
  /\ idx[2] = 2
  /\ Len(sent[2]) = 1

\* C9: every session starts at the same offset, and a read takes nothing out
\* of the stream: a session that has ranged over the stream as far as another
\* one got has delivered every record the other one delivered, in the same
\* order, whatever the other one did and however it ended.
C9_Replay ==
  \A s \in Sessions : \A t \in Sessions :
    (stream[s] = stream[t] /\ pc[s] # "idle" /\ AtBoundary(t) /\ lastID[t] >= lastID[s]) =>
      IsPrefix(sent[s], sent[t])

\* The second session, started after the first one returned, has delivered
\* what the first one delivered.
C9_Witness ==
  /\ pc[1] = "done"
  /\ Len(sent[1]) = 2
  /\ wanted[2] = lastID[1]
  /\ AtBoundary(2)
  /\ sent[2] = sent[1]

SentIDs(s) == {sent[s][i].ID : i \in 1..Len(sent[s])}

\* The IDs of the decodable entries of a stream up to an offset.
DecodableIDs(name, offset) ==
  {streams[name][k].ID : k \in {j \in 1..Len(streams[name]) :
      streams[name][j].ID <= offset /\ Decodable(name, streams[name][j])}}

C11_SelectAfterBatch ==
  /\ [][\A s \in Sessions :
          /\ (pc[s] = "range" /\ pc'[s] # "range") =>
                \/ pc'[s] = "select" /\ idx[s] = Len(messages[s]) /\ ret'[s] = "none"
                \/ pc'[s] = "done" /\ ret'[s] = SinkError
          /\ (pc[s] = "select" /\ pc'[s] # "select") =>
                IF ctx[s] THEN pc'[s] = "done" /\ ret'[s] = "nil"
                          ELSE pc'[s] = "read" /\ ret'[s] = "none"
          /\ pc'[s] = "read" => pc[s] \in {"idle", "read", "select"}
          /\ (ret[s] = "nil" /\ pc[s] = "done") => pc'[s] = "done" /\ lastID'[s] = lastID[s]]_vars
  /\ [](\A s \in Sessions : ret[s] = "nil" => pc[s] = "done" /\ ctx[s])

\* A session that returned nil after two batches, the second of them read
\* before its ctx was done or after.
C11_Witness ==
  /\ ret[1] = "nil"
  /\ pc[1] = "done"
  /\ Len(sent[1]) = 2
  /\ lastID[1] = 3
  /\ sent[1][1].ID = 1

\* C12: a read that fails ends the session with the read's error as the
\* returned value (ctx's error only when ctx is done): the step hands nothing
\* to the sink and leaves the offset where it was, and the session that
\* returned it neither reads nor invokes the sink again.
C12_ReadErrorAborts ==
  /\ [][\A s \in Sessions :
          (pc[s] = "read" /\ pc'[s] \notin {"read", "range"}) =>
            /\ pc'[s] = "done"
            /\ ret'[s] \in {TransportError, ContextCanceled}
            /\ ret'[s] = ContextCanceled => ctx[s]
            /\ calls'[s] = calls[s]
            /\ sent'[s] = sent[s]
            /\ lastID'[s] = lastID[s]]_vars
  /\ [][\A s \in Sessions :
          ret[s] \in {TransportError, ContextCanceled} =>
            /\ pc[s] = "done" /\ pc'[s] = "done"
            /\ ret'[s] = ret[s]
            /\ calls'[s] = calls[s]
            /\ lastID'[s] = lastID[s]]_vars

\* The second read of a session failed in the store, an entry still unread.
C12_Witness ==
  /\ ret[1] = TransportError
  /\ ~ctx[1]
  /\ Len(sent[1]) = 1
  /\ calls[1] = 1
  /\ XRead(stream[1], lastID[1]) # <<>>

\* The streams a step has changed.
Changed == {n \in DOMAIN streams : streams'[n] # streams[n]}

\* C13: a producer call that returns nil has added exactly one entry, at the
\* end of exactly one stream, and a producer call that fails returns its
\* serialization or transport error and leaves every stream as it was: no
\* step of a producer appends more than one entry.
C13_OneAppendPerCall ==
  [][IF perr' = "nil"
       THEN /\ Cardinality(Changed) = 1
            /\ \A n \in Changed :
                 /\ Len(streams'[n]) = Len(streams[n]) + 1
                 /\ IsPrefix(streams[n], streams'[n])
            /\ Len(produced') = Len(produced) + 1
            /\ clock' = clock + 1
       ELSE /\ perr' \in {SerializationError, TransportError}
            /\ Changed = {}
            /\ produced' = produced
            /\ clock' = clock]_vars

\* A call failed after two calls had appended to two streams.
C13_Witness ==
  /\ perr = TransportError
  /\ Len(produced) = 2
  /\ Len(streams[StateStream]) = 1
  /\ Len(streams[LogsStream]) = 1

\* The stream a producer call appends to.
Target(call) ==
  IF call.call = "PushToLogStream" THEN call.ws \o "-logs" ELSE call.ws \o "-state"

\* The IDs of the entries of a stream, in the stream's order.
EntryIDs(name) == [i \in 1..Len(streams[name]) |-> streams[name][i].ID]

\* The IDs the store assigned to the calls that appended to a stream, in the
\* order in which the store took the calls.
ProducedIDs(name) ==
  LET seq == SelectSeq(produced, LAMBDA call : Target(call) = name)
  IN [i \in 1..Len(seq) |-> seq[i].ID]

\* C20: whatever the order in which the store takes the producers' calls, the
\* entries of every stream are exactly the entries of the calls that returned
\* nil for that stream, one entry per call and in the order of the calls, with
\* IDs that increase along the stream and are assigned once in the whole store.
C20_NoLostAppend ==
  /\ \A n \in DOMAIN streams :
       /\ EntryIDs(n) = ProducedIDs(n)
       /\ \A i \in 1..Len(streams[n]) : \A j \in 1..Len(streams[n]) :
            i < j => streams[n][i].ID < streams[n][j].ID
  /\ \A i \in 1..Len(produced) : \A j \in 1..Len(produced) :
       i < j => produced[i].ID < produced[j].ID

\* The three producer calls have appended to the two streams of one operation.
C20_Witness ==
  /\ Len(produced) = 3
  /\ produced[1].call = "PushToOperationStream"
  /\ produced[2].call = "PushToLogStream"
  /\ produced[3].call = "SendOperationCompleted"
  /\ \A i \in 1..3 : produced[i].ws = WorkspaceID
  /\ perr = "nil"
  /\ Len(streams[StateStream]) = 2
  /\ Len(streams[LogsStream]) = 1

\* C14: a session has returned exactly when it has a returned value, and it
\* leaves its loop in three ways only: from the select with nil when ctx is
\* done, from the range loop with the error of the sink it has just invoked on
\* a decodable entry, or from the read with the read's error.  The step that
\* hands the completion marker to the sink leaves the session in its loop, as
\* does every step over an entry that cannot be decoded.
C14_ThreeExits ==
  /\ [](\A s \in Sessions :
          /\ pc[s] = "done" <=> ret[s] # "none"
          /\ ret[s] \in {"none", "nil", SinkError, TransportError, ContextCanceled})
  /\ [][\A s \in Sessions :
          (pc[s] # "done" /\ pc'[s] = "done") =>
            \/ pc[s] = "select" /\ ctx[s] /\ ret'[s] = "nil"
            \/ /\ pc[s] = "range"
               /\ Decodable(stream[s], messages[s][idx[s]])
               /\ calls'[s] = calls[s] + 1
               /\ sent'[s] = sent[s]
               /\ ret'[s] = SinkError
            \/ pc[s] = "read" /\ ret'[s] \in {TransportError, ContextCanceled}]_vars
  /\ [][\A s \in Sessions :
          (pc[s] = "range" /\ IsMarker(messages[s][idx[s]]) /\ sent'[s] # sent[s]) =>
            pc'[s] \in {"range", "select"} /\ ret'[s] = "none"]_vars

\* A session back at its read after a batch in which it skipped an entry it
\* could not decode and delivered the completion marker.
C14_Witness ==
  /\ pc[1] = "read"
  /\ stream[1] = StateStream
  /\ lastID[1] = 3
  /\ \E k \in 1..Len(streams[StateStream]) : ~Decodable(StateStream, streams[StateStream][k])
  /\ \E i \in 1..Len(sent[1]) : sent[1][i].record = CompletedRecord /\ sent[1][i].ID < 3

\* The line of a log record as the claim writes it.
ClaimedLine(data) ==
  "[" \o data.Level \o "] [" \o data.Timestamp \o "] " \o data.Message
  \o (IF data.Detail # "" THEN ": " \o data.Detail ELSE "")

\* C15 as claimed: every string a logs tail delivers is "[level] [timestamp]
\* message" of a pushed log record, with ": detail" appended exactly when the
\* detail is not empty, and nothing else.
C15_LineAsClaimed ==
  \A s \in Sessions :
    stream[s] = LogsStream =>
      \A i \in 1..Len(sent[s]) : sent[s][i].record \in {ClaimedLine(data) : data \in LogLines}

\* C15, amended: PushToLogStream stores "[level] [timestamp] message", with
\* ": detail" appended exactly when the detail is not empty, followed by a
\* line feed, and a logs tail delivers the stored string of each entry as it
\* is, the line feed included.
C15_LineWithNewline ==
  /\ [][\A data \in LogLines :
          PushToLogStream(WorkspaceID, data) =>
            LET e == streams'[LogsStream][Len(streams'[LogsStream])]
            IN e.Values = [log |-> StringValue(ClaimedLine(data) \o "\n")]]_vars
  /\ [](\A s \in Sessions :
          stream[s] = LogsStream =>
            \A i \in 1..Len(sent[s]) :
              /\ sent[s][i].record \in {ClaimedLine(data) \o "\n" : data \in LogLines}
              /\ \E k \in 1..Len(streams[LogsStream]) :
                   /\ streams[LogsStream][k].ID = sent[s][i].ID
                   /\ streams[LogsStream][k].Values["log"].v = sent[s][i].record)

\* The scenario: a state update, the log line INFO/t2/applying, the completion
\* marker; the logs tail has delivered the one line.
C15_Witness ==
  /\ Len(pushed) = 2
  /\ pushed[1].resource_id = "r1"
  /\ pushed[2] = CompletedRecord
  /\ Len(streams[LogsStream]) = 1
  /\ streams[LogsStream][1].ID = 2
  /\ stream[1] = LogsStream
  /\ CaughtUp(1)
  /\ Records(1) = <<"[INFO] [t2] applying\n">>

\* The stream kinds, and the stream of an operation and a kind.
Kinds == {"state", "logs"}

NameOf(ws, kind) == IF kind = "state" THEN getStateStreamName(ws) ELSE getLogsStreamName(ws)

KindOf(call) == IF call.call = "PushToLogStream" THEN "logs" ELSE "state"

\* The producer call that appended the entry with the given ID.
Origin(id) == CHOOSE call \in {produced[i] : i \in 1..Len(produced)} : call.ID = id

\* C16: the stream names of two operations and two kinds are equal only when
\* the operations and the kinds are, so the stream a session tails belongs to
\* one operation and one kind, and every entry the session delivers was
\* appended by a producer call for that operation and that kind.
C16_StreamsNeverMix ==
  /\ \A ws1 \in Workspaces : \A ws2 \in Workspaces : \A k1 \in Kinds : \A k2 \in Kinds :
       NameOf(ws1, k1) = NameOf(ws2, k2) => ws1 = ws2 /\ k1 = k2
  /\ \A s \in Sessions : \A i \in 1..Len(sent[s]) :
       LET call == Origin(sent[s][i].ID)
       IN /\ stream[s] = NameOf(call.ws, KindOf(call))
          /\ \A ws \in Workspaces : \A kind \in Kinds :
               stream[s] = NameOf(ws, kind) => ws = call.ws /\ kind = KindOf(call)

\* A tail of one operation's logs stream has delivered the line pushed for
\* that operation, after a state update was pushed for the other operation.
C16_Witness ==
  /\ stream[1] = getLogsStreamName(WorkspaceID)
  /\ Len(streams[getStateStreamName(OtherWorkspaceID)]) = 1
  /\ Len(streams[getLogsStreamName(WorkspaceID)]) = 1
  /\ streams[getStateStreamName(OtherWorkspaceID)][1].ID = 1
  /\ Len(sent[1]) = 1
  /\ sent[1][1].ID = 2
  /\ pc[1] = "read"

\* The stream of a session holds a decodable entry with the given ID.
Pending(s, id) ==
  /\ pc[s] \in Running
  /\ \E k \in 1..Len(streams[stream[s]]) :
       streams[stream[s]][k].ID = id /\ Decodable(stream[s], streams[stream[s]][k])

\* C17: when the store answers the blocked read, every decodable entry of the
\* stream of a running session, appended before the session started or after,
\* is eventually delivered to the session's sink, unless the session has
\* returned (which it does only when its ctx is done, its sink fails or its
\* read fails).
C17_EventuallyDelivered ==
  \A id \in 1..MaxAppends :
    Pending(1, id) ~> (id \in SentIDs(1) \/ pc[1] = "done")

\* A session that was never cancelled has delivered two entries and waits
\* for the next one.
C17_Witness ==
  /\ CaughtUp(1)
  /\ pc[1] = "read"
  /\ ~ctx[1]
  /\ SentIDs(1) = {1, 2}
  /\ calls[1] = 2

\* The IDs of the entries of a stream after one offset and up to another.
IDsBetween(name, from, to) ==
  {streams[name][k].ID : k \in {j \in 1..Len(streams[name]) :
      from < streams[name][j].ID /\ streams[name][j].ID <= to}}

\* C18: a read that returns a batch sets the offset to the ID of the batch's
\* last entry, which is after the offset the read started from, and the batch
\* holds every entry of the stream after the old offset up to the new one and
\* no other; no other step of a running session moves the offset; the IDs of
\* the entries handed to the sink increase, so none is handed over twice.
C18_OffsetAdvances ==
  /\ [][\A s \in Sessions :
          IF pc[s] = "read" /\ pc'[s] = "range"
            THEN /\ messages'[s] # <<>>
                 /\ lastID'[s] = messages'[s][Len(messages'[s])].ID
                 /\ lastID'[s] > lastID[s]
                 /\ {messages'[s][i].ID : i \in 1..Len(messages'[s])}
                      = IDsBetween(stream[s], lastID[s], lastID'[s])
                 /\ \A i \in 1..Len(messages'[s]) : \A j \in 1..Len(messages'[s]) :
                      i < j => messages'[s][i].ID < messages'[s][j].ID
            ELSE pc[s] # "idle" => lastID'[s] = lastID[s]]_vars
  /\ [](\A s \in Sessions : \A i \in 1..Len(sent[s]) : \A j \in 1..Len(sent[s]) :
          i < j => sent[s][i].ID < sent[s][j].ID)
  /\ [](\A s \in Sessions :
          pc[s] = "range" => \A i \in 1..Len(sent[s]) : sent[s][i].ID < messages[s][idx[s]].ID)

\* The second batch of a session, two entries after a first batch of one, the
\* first entry of each batch delivered.
C18_Witness ==
  /\ pc[1] = "range"
  /\ lastID[1] = 3
  /\ Len(messages[1]) = 2
  /\ messages[1][1].ID = 2
  /\ idx[1] = 2
  /\ SentIDs(1) = {1, 2}

\* C19: a session whose ctx is done while it ranges over a batch stays in the
\* range loop until the batch's last message (unless its sink fails): each of
\* its steps hands the message at hand to the sink when it is decodable, and
\* moves to the next message or, after the last one, to the select; and a
\* session that has returned nil has handed to its sink every decodable entry
\* of every batch it read.
C19_CancelAtBatchBoundary ==
  /\ [][\A s \in Sessions :
          (pc[s] = "range" /\ ctx[s] /\ <<pc[s], idx[s]>> # <<pc'[s], idx'[s]>>) =>
            /\ calls'[s] = calls[s] + (IF Decodable(stream[s], messages[s][idx[s]]) THEN 1 ELSE 0)
            /\ \/ pc'[s] = "range" /\ idx'[s] = idx[s] + 1 /\ idx[s] < Len(messages[s])
               \/ pc'[s] = "select" /\ idx[s] = Len(messages[s])
               \/ pc'[s] = "done" /\ ret'[s] = SinkError]_vars
  /\ [](\A s \in Sessions :
          ret[s] = "nil" =>
            /\ sent[s] = Expected(stream[s], lastID[s])
            /\ calls[s] = Len(sent[s]))

\* A session whose ctx is done is at the second message of a batch of two,
\* the first one delivered.
C19_Witness ==
  /\ pc[1] = "range"
  /\ ctx[1]
  /\ Len(messages[1]) = 2
  /\ idx[1] = 2
  /\ calls[1] = 1
  /\ Len(sent[1]) = 1
  /\ Decodable(stream[1], messages[1][2])

\* C21: a session whose stream has never been appended to stays at its read
\* with nothing delivered: the emptiness of the stream gives it no batch and
\* no error of its own (it leaves the read only when the store or the
\* connection fails or, once ctx is done, with ctx's error); and the first
\* batch of a session starts with the first entry of the stream, which is the
\* first entry the sink receives when it is decodable.
C21_BlocksOnEmptyStream ==
  /\ [](\A s \in Sessions :
          (pc[s] = "read" /\ streams[stream[s]] = <<>>) =>
            sent[s] = <<>> /\ calls[s] = 0 /\ lastID[s] = 0 /\ ret[s] = "none")
  /\ [][\A s \in Sessions :
          (pc[s] = "read" /\ streams[stream[s]] = <<>> /\ pc'[s] # "read") =>
            pc'[s] = "done" /\ ret'[s] \in {TransportError, ContextCanceled}]_vars
  /\ [][\A s \in Sessions :
          (pc[s] = "read" /\ lastID[s] = 0 /\ pc'[s] = "range") =>
            messages'[s][1] = streams[stream[s]][1]]_vars
  /\ [](\A s \in Sessions :
          (sent[s] # <<>> /\ Decodable(stream[s], streams[stream[s]][1])) =>
            sent[s][1].ID = streams[stream[s]][1].ID)

\* A session has delivered the first entry of its stream, the only one, and
\* no other stream of the store holds an older entry.
C21_Witness ==
  /\ pc[1] = "read"
  /\ Len(streams[stream[1]]) = 1
  /\ clock = 1
  /\ lastID[1] = 1
  /\ Len(sent[1]) = 1
  /\ sent[1][1].ID = 1

\* The state-stream calls of the operation that returned nil, in the order of
\* their entries: the k-th of them has the k-th element of pushed as argument.
StateCalls == SelectSeq(produced, LAMBDA call : Target(call) = StateStream)

C25_SinkErrorWins ==
  /\ [][\A s \in Sessions :
          (pc[s] = "range" /\ calls'[s] = calls[s] + 1 /\ sent'[s] = sent[s]) =>
            pc'[s] = "done" /\ ret'[s] = SinkError /\ ctx'[s] = ctx[s]]_vars
  /\ [][\A s \in Sessions : ret[s] = SinkError => ret'[s] = SinkError]_vars
  /\ [](\A s \in Sessions : (ret[s] = "nil" /\ ctx[s]) => calls[s] = Len(sent[s]))

\* The sink failed on the second entry of a batch, ctx being done, after the
\* first entry was delivered.
C25_Witness ==
  /\ ret[1] = SinkError
  /\ ctx[1]
  /\ calls[1] = 2
  /\ Len(sent[1]) = 1
  /\ lastID[1] = 2

\* C27: a batch is ranged over to its end whatever it holds, and the offset
\* is at the ID of its last entry from the read on: after a batch of entries
\* that cannot be decoded the session stands at its select with the offset at
\* the last of them and nothing handed to the sink, and the next read returns
\* entries after that offset only.
C27_SkippedAdvanceOffset ==
  /\ [][\A s \in Sessions :
          (pc[s] = "range" /\ pc'[s] = "select") =>
            /\ lastID'[s] = messages[s][Len(messages[s])].ID
            /\ (\A i \in 1..Len(messages[s]) : ~Decodable(stream[s], messages[s][i])) =>
                 sent'[s] = sent[s] /\ calls'[s] = calls[s]]_vars
  /\ [](\A s \in Sessions :
          AtBoundary(s) =>
            \A k \in 1..Len(streams[stream[s]]) :
              LET e == streams[stream[s]][k]
              IN (~Decodable(stream[s], e) /\ e.ID <= Handled(s)) =>
                   \A i \in 1..Len(XRead(stream[s], lastID[s])) :
                     XRead(stream[s], lastID[s])[i].ID > e.ID)

\* A session has read a batch of one entry that cannot be decoded: its
\* offset is at that entry, and its sink was never invoked.
C27_Witness ==
  /\ pc[1] = "read"
  /\ Len(streams[stream[1]]) = 2
  /\ ~Decodable(stream[1], streams[stream[1]][1])
  /\ lastID[1] = streams[stream[1]][1].ID
  /\ calls[1] = 0
  /\ Len(XRead(stream[1], lastID[1])) = 1

\* What a stream shows of its entries to the control flow of a tail: their IDs
\* and whether they are delivered or skipped.
Pattern(name, entries) ==
  [i \in 1..Len(entries) |-> [ID |-> entries[i].ID, deliver |-> Decodable(name, entries[i])]]

\* What a session shows of its control flow: where it stands, its offset, its
\* batch as a pattern, its sink calls, the IDs it delivered, how it ended.
SkeletonView(s) ==
  [pc |-> pc[s], lastID |-> lastID[s], idx |-> idx[s],
   batch |-> Pattern(stream[s], messages[s]),
   calls |-> calls[s],
   delivered |-> [i \in 1..Len(sent[s]) |-> sent[s][i].ID],
   ret |-> ret[s], ctx |-> ctx[s]]

\* The view after the message at hand: the next message, or the select.
SkeletonContinue(v) ==
  IF v.idx = Len(v.batch)
    THEN [v EXCEPT !.pc = "select", !.batch = <<>>, !.idx = 0]
    ELSE [v EXCEPT !.idx = @ + 1]

SkeletonReturn(v, value) ==
  [v EXCEPT !.pc = "done", !.ret = value, !.batch = <<>>, !.idx = 0]

\* One step of the skeleton from view v to view w, the stream holding the
\* pattern pending after v's offset: the step depends on the pattern, on the
\* sink's outcome, on ctx and on the read's failure, not on the kind of tail.
SkeletonStep(v, w, pending) ==
  IF w.ctx # v.ctx
    THEN w = [v EXCEPT !.ctx = TRUE] /\ v.pc \in Running
    ELSE CASE v.pc = "idle" -> w = [v EXCEPT !.pc = "read"] /\ v.lastID = 0
           [] v.pc = "read" ->
                \/ /\ pending # <<>>
                   /\ w = [v EXCEPT !.pc = "range", !.batch = pending,
                                     !.lastID = pending[Len(pending)].ID, !.idx = 1]
                \/ w = SkeletonReturn(v, TransportError)
                \/ v.ctx /\ w = SkeletonReturn(v, ContextCanceled)
           [] v.pc = "range" ->
                IF v.batch[v.idx].deliver
                  THEN \/ w = SkeletonContinue([v EXCEPT !.calls = @ + 1,
                                  !.delivered = Append(@, v.batch[v.idx].ID)])
                       \/ w = SkeletonReturn([v EXCEPT !.calls = @ + 1], SinkError)
                  ELSE w = SkeletonContinue(v)
           [] v.pc = "select" ->
                w = IF v.ctx THEN SkeletonReturn(v, "nil") ELSE [v EXCEPT !.pc = "read"]
           [] OTHER -> FALSE

\* C23: every step of a logs tail and every step of a state tail is a step
\* of one skeleton, which sees of the stream only the IDs of its entries and
\* which of them are delivered: with the same IDs, the same deliver/skip
\* pattern, the same sink outcomes and the same cancellations and read
\* failures, the two tails read from the same offsets, invoke the sink the
\* same number of times and end with the same value.
C23_SameSkeleton ==
  [][\A s \in Sessions :
       SkeletonView(s)' # SkeletonView(s) =>
         SkeletonStep(SkeletonView(s), SkeletonView(s)',
                      Pattern(stream'[s], XRead(stream'[s], lastID[s])))]_vars

\* A logs tail has skipped an entry, delivered the next one of the same
\* batch and returned nil from the select.
C23_Witness ==
  /\ stream[1] = LogsStream
  /\ ret[1] = "nil"
  /\ Len(streams[LogsStream]) = 2
  /\ ~Decodable(LogsStream, streams[LogsStream][1])
  /\ SentIDs(1) = {streams[LogsStream][2].ID}
  /\ calls[1] = 1
  /\ lastID[1] = streams[LogsStream][2].ID

\* C26 as claimed: a read that returns without an error and without an entry
\* is handled: no session ends in a panic on an index out of range, and the
\* session is at its next read.
C26_NeverFaults ==
  \A s \in Sessions : pc[s] \in {"idle", "done"} \cup Running

\* The listed secrets of a release.
SecretsOf(id) ==
  {secretList[i] : i \in {j \in 1..Len(secretList) :
      "name" \in DOMAIN secretList[j].Labels /\ ReleaseID(secretList[j]) = id}}

\* A secret's version label is a number.
HasVersion(secret) ==
  "version" \in DOMAIN secret.Labels /\ secret.Labels["version"] \in {"1", "2"}

VersionOf(secret) == IF secret.Labels["version"] = "1" THEN 1 ELSE 2

\* C24 as claimed: when ListReleases returns nil, latestMap holds one secret
\* for every release that has a listed secret, a listed secret of that
\* release, and its version is the greatest version among the listed secrets
\* of the release: no listed secret of the release has a greater one, whatever
\* the order of the listing and the labels of the other secrets.
C24_KeepsLatest ==
  lret = "nil" =>
    \A i \in 1..Len(secretList) :
      "name" \in DOMAIN secretList[i].Labels =>
        LET id == ReleaseID(secretList[i])
        IN /\ id \in DOMAIN latestMap
           /\ latestMap[id] \in SecretsOf(id)
           /\ \A q \in SecretsOf(id) :
                HasVersion(q) => HasVersion(latestMap[id]) /\ VersionOf(latestMap[id]) >= VersionOf(q)

\* The number of results a detector has sent.
SentBy(d) == Cardinality({i \in 1..Len(results) : results[i] = d})

\* C28: one call of Detect returns: no goroutine panics or waits on its send
\* (a detector about to send finds room in the buffer, which never holds
\* more than its capacity of 4), every detector sends at most one result and
\* signals the wait group once (the counter is the number of detectors that
\* have not signalled), the wait ends, and the channel is closed only when
\* every detector has sent and signalled.
C28_DetectTerminates ==
  /\ <>(mpc = "returned")
  /\ [](/\ Len(results) <= ResultsCap
        /\ \A d \in Detectors :
             /\ dpc[d] # "panic"
             /\ SentBy(d) <= 1
             /\ dpc[d] = "scan" => ~closed /\ Len(results) < ResultsCap
             /\ closed => dpc[d] = "exit"
        /\ mpc \in {"go", "wait"} =>
             wg = Cardinality({d \in Detectors : dpc[d] # "exit"})
        /\ mpc \in {"close", "classify", "returned"} => wg = 0)

\* Detect has returned after four results were in the buffer.
C28_Witness ==
  /\ mpc = "returned"
  /\ Len(results) = ResultsCap
  /\ closed
  /\ wg = 0

\* The names in the directory, and whether they hold what one of the four
\* detectors (pipenv, pip, conda, standalone) looks for.
NamesIn == {directoryContent[i] : i \in 1..Len(directoryContent)}

SomeDetectorMatches ==
  \/ {"Pipfile", "Pipfile.lock"} \subseteq NamesIn
  \/ "requirements.txt" \in NamesIn
  \/ NamesIn \cap {"environment.yml", "package-list.txt"} # {}
  \/ \E name \in NamesIn : Len(name) >= 3 /\ SubSeq(name, Len(name) - 2, Len(name)) = ".py"

Listed(list, info) == \E i \in 1..Len(list) : list[i] = info

\* C29: Detect puts the Python buildpack in exactly one list of each builder:
\* when it returns it has appended it to Detected of paketo and of heroku if
\* some detector matched the directory, and to Others of both if none did,
\* leaving the other list as it was, in whatever order the goroutines ran;
\* until then neither builder lists it.
C29_ClassifiesOnce ==
  /\ [][mpc # "returned" /\ mpc' = "returned" =>
          IF SomeDetectorMatches
            THEN /\ paketo' = [paketo EXCEPT !.Detected = Append(@, PaketoBuildpackInfo)]
                 /\ heroku' = [heroku EXCEPT !.Detected = Append(@, HerokuBuildpackInfo)]
            ELSE /\ paketo' = [paketo EXCEPT !.Others = Append(@, PaketoBuildpackInfo)]
                 /\ heroku' = [heroku EXCEPT !.Others = Append(@, HerokuBuildpackInfo)]]_vars
  /\ [](mpc # "returned" =>
          /\ ~Listed(paketo.Detected \o paketo.Others, PaketoBuildpackInfo)
          /\ ~Listed(heroku.Detected \o heroku.Others, HerokuBuildpackInfo))
  /\ [](mpc = "returned" =>
          /\ Listed(paketo.Detected, PaketoBuildpackInfo) # Listed(paketo.Others, PaketoBuildpackInfo)
          /\ Listed(heroku.Detected, HerokuBuildpackInfo) # Listed(heroku.Others, HerokuBuildpackInfo)
          /\ Listed(paketo.Detected, PaketoBuildpackInfo) = SomeDetectorMatches
          /\ Listed(heroku.Detected, HerokuBuildpackInfo) = SomeDetectorMatches)

\* Detect has returned with the buildpack detected, the detector started last
\* having sent its result first.
C29_Witness ==
  /\ mpc = "returned"
  /\ Len(results) >= 2
  /\ results[1] = "standalone"
  /\ Listed(paketo.Detected, PaketoBuildpackInfo)
  /\ Listed(heroku.Detected, HerokuBuildpackInfo)
  /\ Len(paketo.Detected) = 2

====
